---- MODULE Spec2Model ----
(***************************************************************************)
(* State-machine model of local_lfs_to_gcs.py: a git-lfs custom transfer   *)
(* agent that reads newline-delimited JSON events from standard input,     *)
(* uploads/downloads objects to a GCS bucket and answers on standard       *)
(* output.  One action per step of the program between two points where it *)
(* waits for the outside world (next input line, credential tool, HTTP     *)
(* response).                                                              *)
(***************************************************************************)
EXTENDS Integers, Sequences, FiniteSets, TLC

VARIABLES
    pc,        \* position of the single worker: "main", "read", one of HandlerPcs,
               \* "finish" (handle_request has returned), "exited"
    consumed,  \* the input lines read from standard input so far, in order
    cur,       \* locals of the handler in progress, NoTask between events
    stdout,    \* lines written to standard output (parsed back to objects)
    stderr,    \* lines written to standard error
    files,     \* local filesystem: path -> [exists, data]
    calls,     \* credential-tool invocations and HTTP requests issued, in order
    posted,    \* bytes of the local file sent by the upload POST in flight
    started,   \* number of process_event calls entered
    finished,  \* number of process_event calls left (by return or by exception)
    handled,   \* number of init/upload/download/terminate handlers that returned
    cause,     \* why the read loop ended: "none", "eof", "malformed", "failure"
    exitCode,  \* process exit status, Running while the process lives
    environ,   \* os.environ["GCS_BUCKET"]
    http,      \* the last HTTP response received
    writes,    \* the paths opened for writing so far, in order
    flushed,   \* number of lines of standard output flushed to the pipe
    trace      \* what the handlers saw and did, in order: results of the
               \* credential tool, HTTP replies, files opened and closed,
               \* `complete` responses written

vars == <<pc, consumed, cur, stdout, stderr, files, calls, posted,
          started, finished, handled, cause, exitCode, environ, http, writes,
          flushed, trace>>

-----------------------------------------------------------------------------
(* Bounds of the model *)

\* number of input lines the sender supplies before end-of-input
MaxLines == 2
\* longest HTTP body / file content, in bytes
MaxBody == 2

(* Program constants *)

StatusOK == 200
StatusForbidden == 403
ChunkSize == 8192

\* exit status while the process lives, and the status of an uncaught exception
Running == 0 - 1
ExitFailure == 0 + 1

-----------------------------------------------------------------------------
(* Values *)

NoneStr == "None"

OidA == <<"a", "b", "1", "2", "e", "f">>
OidB == <<"c", "d", "3">>
Oids == { OidA, OidB }

\* get_temporary_path, src lines 11-15.  os.path.join of non-absolute
\* components concatenates them with "/", an empty component adding nothing
\* in the middle of the path: the path is the sequence of non-empty components.
Slice(s, from, to) ==
    SubSeq(s, from + 1, IF to < Len(s) THEN to ELSE Len(s))

PathJoin(parts) ==
    SelectSeq(parts, LAMBDA c : c # <<>>)

get_temporary_path(oid) ==
    PathJoin(<< <<".git/lfs/objects">>, Slice(oid, 0, 2), Slice(oid, 2, 4), oid >>)

\* paths the caller names: a scratch file, and the sharded path of OidA itself
TmpOut == << <<"tmp">>, <<"out">> >>
CallerPaths == { TmpOut, get_temporary_path(OidA) }

Paths == CallerPaths \cup { get_temporary_path(o) : o \in Oids }

Bodies == { [i \in 1..n |-> i] : n \in 0..MaxBody }

\* statuses the object store answers with
Statuses == { StatusOK, StatusForbidden, 404 }

\* the value of GCS_BUCKET when the process starts, and the values it can take
StartBucket == "bucket-a"
Buckets == { StartBucket, "bucket-b" }

Tokens == { "ya29" }

\* what `gcloud auth print-access-token` can do: print a token and exit 0, or
\* print a diagnostic on its standard error and exit non-zero
ToolRuns ==
    { [returncode |-> 0, stdout |-> <<t, "\n">>, stderr |-> ""] : t \in Tokens }
    \cup { [returncode |-> 1, stdout |-> <<>>, stderr |-> "ERROR: no credentialed account"] }

\* result.stdout.strip(), src line 82: leading and trailing whitespace removed
Whitespace == {" ", "\n", "\t", "\r"}
RECURSIVE StripLeft(_)
StripLeft(text) ==
    IF text # <<>> /\ Head(text) \in Whitespace THEN StripLeft(Tail(text)) ELSE text
RECURSIVE StripRight(_)
StripRight(text) ==
    IF text # <<>> /\ text[Len(text)] \in Whitespace
    THEN StripRight(SubSeq(text, 1, Len(text) - 1))
    ELSE text
Strip(text) == StripRight(StripLeft(text))

Absent == [exists |-> FALSE, data |-> <<>>]
File(data) == [exists |-> TRUE, data |-> data]

\* JSON values that can arrive on one input line
Object(event, oid, path) ==
    [type |-> "object", event |-> event, oid |-> oid, path |-> path]

Objects ==
    { Object(e, <<>>, <<>>) : e \in {"init", "terminate", "progress", NoneStr} }
    \cup { Object("upload", o, TmpOut) : o \in Oids }
    \cup { Object("download", o, TmpOut) : o \in Oids }
    \cup { Object("download", OidA, get_temporary_path(OidA)) }

NonObjects ==
    { [type |-> t, event |-> NoneStr, oid |-> <<>>, path |-> <<>>] :
        t \in {"array", "string", "number", "boolean", "null"} }

NoPayload == [type |-> "none", event |-> NoneStr, oid |-> <<>>, path |-> <<>>]

\* The locals of the handler in progress: oid, path, bucket (src lines 59-61, 134-136)
NoTask == [event |-> NoneStr, oid |-> <<>>, path |-> <<>>, bucket |-> ""]
Task(payload, bucket) ==
    [event |-> payload.event, oid |-> payload.oid, path |-> payload.path,
     bucket |-> bucket]

\* An input line: its text class and, for JSON text, the value it denotes
Lines ==
    { [text |-> "empty", value |-> NoPayload],
      [text |-> "spaces", value |-> NoPayload],
      [text |-> "garbage", value |-> NoPayload] }
    \cup { [text |-> "json", value |-> v] : v \in Objects \cup NonObjects }

\* (mutant) `if not line` without the strip: only the empty line is skipped
IsBlankNoStrip(line) == line.text = "empty"

\* line.strip() is empty, src line 149: the line holds nothing or only whitespace
IsBlank(line) == line.text \in {"empty", "spaces"}

\* json.loads(line.strip()), src line 152
JsonLoads(line) ==
    IF line.text = "json"
    THEN [ok |-> TRUE, value |-> line.value]
    ELSE [ok |-> FALSE, value |-> NoPayload]

\* (mutant) the event looked up with a default for values that are no dict
HasGetAlways(payload) == TRUE

\* payload.get("event") is only defined on a dict, src line 160
HasGet(payload) == payload.type = "object"

KnownEvents == {"init", "upload", "download", "terminate"}

-----------------------------------------------------------------------------
(* Output helpers *)

Diag(msg, arg) == [msg |-> msg, arg |-> arg]

InitResponse == [event |-> "init"]
TerminateResponse == [event |-> "terminate"]
DownloadComplete(oid, path) == [event |-> "complete", oid |-> oid, path |-> path]
UploadComplete(oid, size) == [event |-> "complete", oid |-> oid, size |-> size]

\* URL templates, src lines 19-21
Url(kind, bucket, object_name) ==
    [kind |-> kind, bucket |-> bucket, object_name |-> object_name]

Request(kind, bucket, object_name, auth, ev) ==
    [url |-> Url(kind, bucket, object_name), auth |-> auth, ev |-> ev]

TokenCall(ev) ==
    [url |-> Url("gcloud", "", <<>>), auth |-> <<>>, ev |-> ev]

Getenv == environ

\* entries of the trace
Entry(what, ev, kind, status, path) ==
    [what |-> what, ev |-> ev, kind |-> kind, status |-> status, path |-> path]
Ran(ev, returncode) == Entry("tool", ev, "gcloud", returncode, <<>>)
Reply(ev, kind, status) == Entry("reply", ev, kind, status, <<>>)
Opened(ev, path) == Entry("open", ev, "file", 0, path)
Closed(ev, path) == Entry("close", ev, "file", 0, path)
Completed(ev) == Entry("complete", ev, "stdout", 0, <<>>)

\* what the program sees of an HTTP response: status_code, content, and
\* whether response.json() can parse the content
Received(status, body, json) == [status |-> status, body |-> body, json |-> json]
NoResponse == Received(0, <<>>, FALSE)


\* _write_to_file, src lines 65-70: the body arrives in chunks of at most
\* ChunkSize bytes, every non-empty chunk is appended to the opened file.
RECURSIVE Chunks(_)
Chunks(body) ==
    IF body = <<>> THEN <<>>
    ELSE LET n == IF Len(body) < ChunkSize THEN Len(body) ELSE ChunkSize
         IN  <<SubSeq(body, 1, n)>> \o Chunks(SubSeq(body, n + 1, Len(body)))

RECURSIVE Concat(_)
Concat(chunks) ==
    IF chunks = <<>> THEN <<>> ELSE Head(chunks) \o Concat(Tail(chunks))

_write_to_file(fs, destination_path, body) ==
    [fs EXCEPT ![destination_path] = File(Concat(Chunks(body)))]

\* the same, interrupted by an I/O error after k bytes: open(..., "wb") has
\* truncated the file and the with-block closes it
WriteInterrupted(fs, destination_path, body, k) ==
    [fs EXCEPT ![destination_path] = File(SubSeq(Concat(Chunks(body)), 1, k))]

-----------------------------------------------------------------------------
(* Decisions of the code, one definition each *)

\* the points where a handler waits for the credential tool or for the store
HandlerPcs == {"upload_token", "upload_post", "download_public", "download_token",
               "download_private"}

\* (mutant) process_event scheduled as a task instead of awaited: the loop
\* reads on while a handler waits
LoopReadyNoAwait == pc \in {"read"} \cup HandlerPcs

\* `async for line in reader` with `await self.process_event(payload)`:
\* the next line is read only when no handler is in progress, src lines 148-153
LoopReady == pc = "read"

\* (mutant) the return code of the tool ignored
ToolFailedNever(returncode) == FALSE

\* `if result.returncode != 0`, src line 80
ToolFailed(returncode) == returncode # 0

\* (mutant) the token of an earlier event kept and reused
InvokeToolCached(cs, ev) ==
    IF \E i \in 1..Len(cs) : cs[i].url.kind = "gcloud" THEN cs ELSE Append(cs, TokenCall(ev))

\* subprocess.run(["gcloud", "auth", "print-access-token"]), src lines 74-79:
\* every call of get_access_token runs the tool
InvokeTool(cs, ev) == Append(cs, TokenCall(ev))

\* (mutant) the authenticated GET tried after any public failure
NeedsAuthNotOK(status) == status # StatusOK

\* `if response.status_code == 403`, src line 41
NeedsAuth(status) == status = StatusForbidden

\* (mutant) the response written before the body is streamed to the file
RespondThenWrite(ev, path) == <<Completed(ev), Opened(ev, path), Closed(ev, path)>>

\* _write_to_file (the with-block opens and closes the file), then the
\* `complete` response: src lines 33-37 and 47-51
WriteThenRespond(ev, path) == <<Opened(ev, path), Closed(ev, path), Completed(ev)>>

\* (mutant) a write to standard output left in the buffer
FlushSkipped(out, fl) == fl

\* sys.stdout.flush() after every sys.stdout.write, src lines 37, 51, 89, 96, 126
Flush(out, fl) == Len(out)

\* (mutant) a broad `except Exception` around process_event that lets the loop go on
AfterExceptionCaught == "read"

\* an exception other than json.JSONDecodeError leaves the loop and asyncio.run,
\* src lines 151-156 and 181
AfterException == "exited"

\* where download() writes the body of a public 200, src lines 31-33
PublicWritePath(object_name, destination_path) == get_temporary_path(object_name)

\* the path download() reports after a public 200, src line 35
PublicReportedPath(object_name, destination_path) == destination_path

\* (mutant) the authenticated branch writing where the public branch writes
PrivateWritePathTemp(object_name, destination_path) == get_temporary_path(object_name)

\* where download() writes the body of an authenticated 200, src line 47
PrivateWritePath(object_name, destination_path) == destination_path

\* the path download() reports after an authenticated 200, src line 49
PrivateReportedPath(object_name, destination_path) == destination_path

\* os.path.getsize(file_path) when the response is written, src line 124
ReportedSize(fs, file_path, sent, response) == Len(fs[file_path].data)

\* handle_terminate returns to the loop (sys.exit is commented out), src line 99
AfterTerminate == "read"

\* the else branch of process_event only logs, src lines 170-171
AfterUnknown == "read"

\* (mutant) `continue` instead of `break`
AfterDecodeErrorContinue == "read"

\* `break` on json.JSONDecodeError, src lines 154-156
AfterDecodeError == "finish"

\* `continue` on a blank line, src lines 149-150
AfterBlank == "read"

\* (mutant) the init log line printed to standard output
InitOutputLogged(out) == Append(Append(out, Diag("Handling init", <<>>)), InitResponse)

\* what handle_init writes to standard output, src lines 86-90
InitOutput(out) == Append(out, InitResponse)

\* (mutant) the public branch returning without writing its response
PublicOutputMissing(out, object_name, destination_path) == out

\* what download() writes to standard output after a public 200, src lines 34-37
PublicOutput(out, object_name, destination_path) ==
    Append(out, DownloadComplete(object_name,
                                 PublicReportedPath(object_name, destination_path)))

\* (mutant) the unsupported event echoed back to the caller
UnknownOutputEcho(out, event) == Append(out, [event |-> event])

\* what the else branch of process_event writes to standard output, src lines 170-171
UnknownOutput(out, event) == out

-----------------------------------------------------------------------------
Init ==
    /\ pc = "main"
    /\ consumed = <<>>
    /\ cur = NoTask
    /\ stdout = <<>>
    /\ stderr = <<>>
    /\ files \in { [p \in Paths |-> IF p = TmpOut THEN f ELSE Absent] :
                     f \in {Absent, File(<<1>>)} }
    /\ calls = <<>>
    /\ posted = <<>>
    /\ started = 0
    /\ finished = 0
    /\ handled = 0
    /\ cause = "none"
    /\ exitCode = Running
    /\ environ = StartBucket
    /\ http = NoResponse
    /\ writes = <<>>
    /\ flushed = 0
    /\ trace = <<>>

\* an exception leaves asyncio.run: traceback on standard error, exit status 1
Crash(lines, err) ==
    /\ pc' = AfterException
    /\ cur' = NoTask
    /\ posted' = <<>>
    /\ stderr' = stderr \o lines \o <<Diag("Traceback", err)>>
    /\ cause' = "failure"
    /\ exitCode' = ExitFailure

\* src lines 176-181 and 143-146
Main ==
    /\ pc = "main"
    /\ pc' = "read"
    /\ stderr' = stderr \o <<Diag("Transferring", <<>>), Diag("Transfer agent started", <<>>)>>
    /\ UNCHANGED <<consumed, cur, stdout, files, calls, posted, started, finished,
                   handled, cause, exitCode, environ>>
    /\ UNCHANGED <<http, writes>>
    /\ UNCHANGED <<flushed, trace>>

\* the reader yields the next line, src line 148
Reads(line) ==
    /\ LoopReady
    /\ Len(consumed) < MaxLines
    /\ consumed' = Append(consumed, line)

\* end of input: the loop ends and handle_request returns, src line 148
ReadEOF ==
    /\ LoopReady
    /\ pc' = "finish"
    /\ cause' = "eof"
    /\ UNCHANGED <<consumed, cur, stdout, stderr, files, calls, posted, started,
                   finished, handled, exitCode, environ>>
    /\ UNCHANGED <<http, writes>>
    /\ UNCHANGED <<flushed, trace>>

\* src lines 149-150
ReadBlank ==
    \E line \in Lines :
        /\ Reads(line)
        /\ IsBlank(line)
        /\ pc' = AfterBlank
        /\ UNCHANGED <<cur, stdout, stderr, files, calls, posted, started, finished,
                       handled, cause, exitCode, environ>>
        /\ UNCHANGED <<http, writes>>
        /\ UNCHANGED <<flushed, trace>>

\* src lines 151-156
ReadMalformed ==
    \E line \in Lines :
        /\ Reads(line)
        /\ ~IsBlank(line)
        /\ ~JsonLoads(line).ok
        /\ stderr' = Append(stderr, Diag("Error decoding JSON", <<>>))
        /\ pc' = AfterDecodeError
        /\ cause' = IF AfterDecodeError = "finish" THEN "malformed" ELSE cause
        /\ UNCHANGED <<cur, stdout, files, calls, posted, started, finished,
                       handled, exitCode, environ>>
        /\ UNCHANGED <<http, writes>>
        /\ UNCHANGED <<flushed, trace>>

\* payload.get on a value that is no dict: AttributeError, src line 160
ReadNonObject ==
    \E line \in Lines :
        /\ Reads(line)
        /\ ~IsBlank(line)
        /\ JsonLoads(line).ok
        /\ ~HasGet(JsonLoads(line).value)
        /\ started' = started + 1
        /\ finished' = finished + 1
        /\ Crash(<<>>, <<"AttributeError">>)
        /\ UNCHANGED <<stdout, files, calls, handled, environ>>
        /\ UNCHANGED <<http, writes>>
        /\ UNCHANGED <<flushed, trace>>

\* process_event entered with a dict, src lines 158-161
Dispatch(line, event) ==
    /\ Reads(line)
    /\ ~IsBlank(line)
    /\ JsonLoads(line).ok
    /\ HasGet(JsonLoads(line).value)
    /\ JsonLoads(line).value.event = event
    /\ started' = started + 1


\* the event index of the line being dispatched / of the handler in progress
Ev == Len(consumed)

\* handle_init, src lines 84-90
HandleInit ==
    \E line \in Lines :
        /\ Dispatch(line, "init")
        /\ stderr' = stderr \o <<Diag("Processing event", <<"init">>),
                                 Diag("Handling init", <<>>),
                                 Diag("Init event processed and response flushed", <<>>)>>
        /\ stdout' = InitOutput(stdout)
        /\ finished' = finished + 1
        /\ handled' = handled + 1
        /\ pc' = "read"
        /\ UNCHANGED <<cur, files, calls, posted, cause, exitCode, environ>>
        /\ UNCHANGED <<http, writes>>
        /\ flushed' = Flush(stdout', flushed)
        /\ UNCHANGED <<trace>>

\* handle_terminate, src lines 92-99
HandleTerminate ==
    \E line \in Lines :
        /\ Dispatch(line, "terminate")
        /\ stderr' = stderr \o <<Diag("Processing event", <<"terminate">>),
                                 Diag("Handling terminate event", <<>>),
                                 Diag("Terminate event processed", <<>>)>>
        /\ stdout' = Append(stdout, TerminateResponse)
        /\ finished' = finished + 1
        /\ handled' = handled + 1
        /\ pc' = AfterTerminate
        /\ UNCHANGED <<cur, files, calls, posted, cause, exitCode, environ>>
        /\ UNCHANGED <<http, writes>>
        /\ flushed' = Flush(stdout', flushed)
        /\ UNCHANGED <<trace>>

\* the else branch of process_event, src lines 170-171
HandleUnknown ==
    \E line \in Lines :
        LET event == JsonLoads(line).value.event IN
            /\ event \notin KnownEvents
            /\ Dispatch(line, event)
            /\ stderr' = stderr \o <<Diag("Processing event", <<event>>),
                                     Diag("Unsupported event", <<event>>)>>
            /\ stdout' = UnknownOutput(stdout, event)
            /\ finished' = finished + 1
            /\ pc' = AfterUnknown
            /\ UNCHANGED <<cur, files, calls, posted, handled, cause, exitCode, environ>>
            /\ UNCHANGED <<http, writes>>
            /\ UNCHANGED <<flushed, trace>>

-----------------------------------------------------------------------------
(* upload: handle_upload, src lines 132-138, and upload, src lines 101-130 *)

\* up to the invocation of the credential tool (headers, src lines 108-111)
BeginUpload ==
    \E line \in Lines :
        /\ Dispatch(line, "upload")
        /\ cur' = Task(JsonLoads(line).value, Getenv)
        /\ stderr' = stderr \o <<Diag("Processing event", <<"upload">>),
                                 Diag("Handling upload", <<>>),
                                 Diag("uploading file", <<>>)>>
        /\ calls' = InvokeTool(calls, Len(consumed) + 1)
        /\ pc' = "upload_token"
        /\ UNCHANGED <<stdout, files, posted, finished, handled, cause, exitCode, environ>>
        /\ UNCHANGED <<http, writes>>
        /\ UNCHANGED <<flushed, trace>>

\* gcloud exits non-zero: RuntimeError, src lines 80-81
UploadTokenFails ==
    \E run \in ToolRuns :
        /\ pc = "upload_token"
        /\ ToolFailed(run.returncode)
        /\ finished' = finished + 1
        /\ Crash(<<>>, <<"Error fetching access token", run.stderr>>)
        /\ UNCHANGED <<consumed, stdout, files, calls, started, handled, environ>>
        /\ UNCHANGED <<http, writes>>
        /\ trace' = Append(trace, Ran(Ev, run.returncode))
        /\ UNCHANGED <<flushed>>

\* the token is there but open(file_path, "rb") fails, src line 112
UploadOpenFails ==
    \E run \in ToolRuns :
        /\ pc = "upload_token"
        /\ ~ToolFailed(run.returncode)
        /\ ~files[cur.path].exists
        /\ finished' = finished + 1
        /\ Crash(<<>>, <<"FileNotFoundError">>)
        /\ UNCHANGED <<consumed, stdout, files, calls, started, handled, environ>>
        /\ UNCHANGED <<http, writes>>
        /\ trace' = Append(trace, Ran(Ev, run.returncode))
        /\ UNCHANGED <<flushed>>

\* the token is there, the file is opened and its bytes are posted, src lines 112-113
UploadPost ==
    \E run \in ToolRuns :
        /\ pc = "upload_token"
        /\ ~ToolFailed(run.returncode)
        /\ files[cur.path].exists
        /\ calls' = Append(calls, Request("upload", cur.bucket, cur.oid,
                                          <<"Bearer">> \o Strip(run.stdout), Ev))
        /\ posted' = files[cur.path].data
        /\ pc' = "upload_post"
        /\ UNCHANGED <<consumed, cur, stdout, stderr, files, started, finished, handled,
                       cause, exitCode, environ>>
        /\ UNCHANGED <<http, writes>>
        /\ trace' = trace \o <<Ran(Ev, run.returncode), Opened(Ev, cur.path)>>
        /\ UNCHANGED <<flushed>>

\* another process rewrites or removes the local file while the POST is in flight
FileChanges ==
    \E f \in {Absent} \cup { File(b) : b \in Bodies } :
        /\ pc = "upload_post"
        /\ f # files[cur.path]
        /\ files' = [files EXCEPT ![cur.path] = f]
        /\ UNCHANGED <<pc, consumed, cur, stdout, stderr, calls, posted, started, finished,
                       handled, cause, exitCode, environ>>
        /\ UNCHANGED <<http, writes>>
        /\ UNCHANGED <<flushed, trace>>

\* responses of the store to the POST: status, whether the body is JSON text,
\* and the size the body reports
UploadResponses ==
    [status : Statuses, json : BOOLEAN, size : 0..MaxBody]

\* status 200, JSON body, the file can be measured: src lines 118-126 and 129-130
UploadSucceeds ==
    \E response \in UploadResponses :
        /\ pc = "upload_post"
        /\ response.status = StatusOK
        /\ response.json
        /\ files[cur.path].exists
        /\ stderr' = stderr \o <<Diag("response received", <<response.status>>),
                                 Diag("completing upload event", <<>>),
                                 Diag("response.json()", <<>>),
                                 Diag("upload event concluded", <<>>)>>
        /\ stdout' = Append(stdout,
                            UploadComplete(cur.oid, ReportedSize(files, cur.path, posted, response)))
        /\ finished' = finished + 1
        /\ handled' = handled + 1
        /\ pc' = "read"
        /\ cur' = NoTask
        /\ posted' = <<>>
        /\ http' = Received(response.status, <<>>, response.json)
        /\ UNCHANGED <<consumed, files, calls, started, cause, exitCode, environ>>
        /\ UNCHANGED writes
        /\ flushed' = Flush(stdout', flushed)
        /\ trace' = trace \o <<Reply(Ev, "upload", response.status), Closed(Ev, cur.path), Completed(Ev)>>

\* status 200 but response.json() raises, src line 121.  With the standard json
\* module the error is a json.JSONDecodeError, which the loop catches (src lines
\* 154-156); with simplejson installed it is not, and it leaves the loop.
UploadBodyNotJson ==
    \E response \in UploadResponses, caught \in BOOLEAN :
        /\ pc = "upload_post"
        /\ response.status = StatusOK
        /\ ~response.json
        /\ finished' = finished + 1
        /\ IF caught
           THEN /\ stderr' = stderr \o <<Diag("response received", <<response.status>>),
                                         Diag("completing upload event", <<>>),
                                         Diag("Error decoding JSON", <<>>)>>
                /\ pc' = "finish"
                /\ cause' = "failure"
                /\ cur' = NoTask
                /\ posted' = <<>>
                /\ UNCHANGED exitCode
           ELSE Crash(<<Diag("response received", <<response.status>>),
                        Diag("completing upload event", <<>>)>>, <<"JSONDecodeError">>)
        /\ http' = Received(response.status, <<>>, response.json)
        /\ UNCHANGED <<consumed, stdout, files, calls, started, handled, environ>>
        /\ UNCHANGED writes
        /\ trace' = trace \o <<Reply(Ev, "upload", response.status), Closed(Ev, cur.path)>>
        /\ UNCHANGED <<flushed>>

\* status 200, JSON body, but the file is gone when it is measured, src line 124
UploadSizeFails ==
    \E response \in UploadResponses :
        /\ pc = "upload_post"
        /\ response.status = StatusOK
        /\ response.json
        /\ ~files[cur.path].exists
        /\ finished' = finished + 1
        /\ Crash(<<Diag("response received", <<response.status>>),
                   Diag("completing upload event", <<>>),
                   Diag("response.json()", <<>>)>>, <<"FileNotFoundError">>)
        /\ http' = Received(response.status, <<>>, response.json)
        /\ UNCHANGED <<consumed, stdout, files, calls, started, handled, environ>>
        /\ UNCHANGED writes
        /\ trace' = trace \o <<Reply(Ev, "upload", response.status), Closed(Ev, cur.path)>>
        /\ UNCHANGED <<flushed>>

\* any other status: RuntimeError, src lines 127-128
UploadFails ==
    \E response \in UploadResponses :
        /\ pc = "upload_post"
        /\ response.status # StatusOK
        /\ finished' = finished + 1
        /\ Crash(<<Diag("response received", <<response.status>>)>>,
                 <<"Error uploading file", response.status>>)
        /\ http' = Received(response.status, <<>>, response.json)
        /\ UNCHANGED <<consumed, stdout, files, calls, started, handled, environ>>
        /\ UNCHANGED writes
        /\ trace' = trace \o <<Reply(Ev, "upload", response.status), Closed(Ev, cur.path)>>
        /\ UNCHANGED <<flushed>>

-----------------------------------------------------------------------------
(* download: handle_download, src lines 57-63, and download, src lines 23-55 *)

\* responses of the store to a GET
DownloadResponses == [status : Statuses, body : Bodies]

\* up to the unauthenticated GET of the public URL, src lines 25-29
BeginDownload ==
    \E line \in Lines :
        /\ Dispatch(line, "download")
        /\ cur' = Task(JsonLoads(line).value, Getenv)
        /\ stderr' = stderr \o <<Diag("Processing event", <<"download">>),
                                 Diag("Handling download", <<>>)>>
        /\ calls' = Append(calls, Request("public", Getenv, JsonLoads(line).value.oid,
                                          <<>>, Len(consumed) + 1))
        /\ pc' = "download_public"
        /\ UNCHANGED <<stdout, files, posted, finished, handled, cause, exitCode, environ>>
        /\ UNCHANGED <<http, writes>>
        /\ UNCHANGED <<flushed, trace>>

\* public 200, body written, response written: src lines 31-38
DownloadPublicSucceeds ==
    \E response \in DownloadResponses :
        /\ pc = "download_public"
        /\ response.status = StatusOK
        /\ files' = _write_to_file(files, PublicWritePath(cur.oid, cur.path), response.body)
        /\ stdout' = PublicOutput(stdout, cur.oid, cur.path)
        /\ finished' = finished + 1
        /\ handled' = handled + 1
        /\ pc' = "read"
        /\ cur' = NoTask
        /\ http' = Received(response.status, response.body, FALSE)
        /\ writes' = Append(writes, PublicWritePath(cur.oid, cur.path))
        /\ UNCHANGED <<consumed, stderr, calls, posted, started, cause, exitCode, environ>>
        /\ flushed' = Flush(stdout', flushed)
        /\ trace' = trace \o <<Reply(Ev, "public", response.status)>> \o WriteThenRespond(Ev, PublicWritePath(cur.oid, cur.path))

\* public 200 but open() fails (the directory is missing), src lines 33 and 67
DownloadPublicOpenFails ==
    \E response \in DownloadResponses :
        /\ pc = "download_public"
        /\ response.status = StatusOK
        /\ finished' = finished + 1
        /\ Crash(<<>>, <<"FileNotFoundError">>)
        /\ http' = Received(response.status, response.body, FALSE)
        /\ UNCHANGED <<consumed, stdout, files, calls, started, handled, environ>>
        /\ UNCHANGED writes
        /\ trace' = trace \o <<Reply(Ev, "public", response.status)>>
        /\ UNCHANGED <<flushed>>

\* public 200 but the stream or the disk fails after k bytes, src lines 68-70
DownloadPublicWriteFails ==
    \E response \in DownloadResponses :
        \E k \in 0..Len(response.body) :
            /\ pc = "download_public"
            /\ response.status = StatusOK
            /\ files' = WriteInterrupted(files, PublicWritePath(cur.oid, cur.path),
                                         response.body, k)
            /\ finished' = finished + 1
            /\ Crash(<<>>, <<"OSError">>)
            /\ http' = Received(response.status, response.body, FALSE)
            /\ writes' = Append(writes, PublicWritePath(cur.oid, cur.path))
            /\ UNCHANGED <<consumed, stdout, calls, started, handled, environ>>
            /\ trace' = trace \o <<Reply(Ev, "public", response.status),
                                     Opened(Ev, PublicWritePath(cur.oid, cur.path)),
                                     Closed(Ev, PublicWritePath(cur.oid, cur.path))>>
            /\ UNCHANGED <<flushed>>

\* public 403: the credential tool is invoked, src lines 41-44
DownloadPublicForbidden ==
    \E response \in DownloadResponses :
        /\ pc = "download_public"
        /\ response.status # StatusOK
        /\ NeedsAuth(response.status)
        /\ calls' = InvokeTool(calls, Ev)
        /\ pc' = "download_token"
        /\ http' = Received(response.status, response.body, FALSE)
        /\ UNCHANGED <<consumed, cur, stdout, stderr, files, posted, started, finished,
                       handled, cause, exitCode, environ>>
        /\ UNCHANGED writes
        /\ trace' = trace \o <<Reply(Ev, "public", response.status)>>
        /\ UNCHANGED <<flushed>>

\* public status neither 200 nor 403: RuntimeError, src line 55
DownloadPublicFails ==
    \E response \in DownloadResponses :
        /\ pc = "download_public"
        /\ response.status # StatusOK
        /\ ~NeedsAuth(response.status)
        /\ finished' = finished + 1
        /\ Crash(<<>>, <<"Error downloading file", response.status, response.body>>)
        /\ http' = Received(response.status, response.body, FALSE)
        /\ UNCHANGED <<consumed, stdout, files, calls, started, handled, environ>>
        /\ UNCHANGED writes
        /\ trace' = trace \o <<Reply(Ev, "public", response.status)>>
        /\ UNCHANGED <<flushed>>

\* gcloud exits non-zero: RuntimeError, src lines 80-81
DownloadTokenFails ==
    \E run \in ToolRuns :
        /\ pc = "download_token"
        /\ ToolFailed(run.returncode)
        /\ finished' = finished + 1
        /\ Crash(<<>>, <<"Error fetching access token", run.stderr>>)
        /\ UNCHANGED <<consumed, stdout, files, calls, started, handled, environ>>
        /\ UNCHANGED <<http, writes>>
        /\ trace' = Append(trace, Ran(Ev, run.returncode))
        /\ UNCHANGED <<flushed>>

\* the token is there: authenticated GET of the private URL, src line 45
DownloadPrivateGet ==
    \E run \in ToolRuns :
        /\ pc = "download_token"
        /\ ~ToolFailed(run.returncode)
        /\ calls' = Append(calls, Request("private", cur.bucket, cur.oid,
                                          <<"Bearer">> \o Strip(run.stdout), Ev))
        /\ pc' = "download_private"
        /\ UNCHANGED <<consumed, cur, stdout, stderr, files, posted, started, finished,
                       handled, cause, exitCode, environ>>
        /\ UNCHANGED <<http, writes>>
        /\ trace' = Append(trace, Ran(Ev, run.returncode))
        /\ UNCHANGED <<flushed>>

\* authenticated 200, body written, response written: src lines 46-52
DownloadPrivateSucceeds ==
    \E response \in DownloadResponses :
        /\ pc = "download_private"
        /\ response.status = StatusOK
        /\ files' = _write_to_file(files, PrivateWritePath(cur.oid, cur.path), response.body)
        /\ stdout' = Append(stdout,
                            DownloadComplete(cur.oid, PrivateReportedPath(cur.oid, cur.path)))
        /\ finished' = finished + 1
        /\ handled' = handled + 1
        /\ pc' = "read"
        /\ cur' = NoTask
        /\ http' = Received(response.status, response.body, FALSE)
        /\ writes' = Append(writes, PrivateWritePath(cur.oid, cur.path))
        /\ UNCHANGED <<consumed, stderr, calls, posted, started, cause, exitCode, environ>>
        /\ flushed' = Flush(stdout', flushed)
        /\ trace' = trace \o <<Reply(Ev, "private", response.status)>> \o WriteThenRespond(Ev, PrivateWritePath(cur.oid, cur.path))

\* authenticated 200 but open() fails, src lines 47 and 67
DownloadPrivateOpenFails ==
    \E response \in DownloadResponses :
        /\ pc = "download_private"
        /\ response.status = StatusOK
        /\ finished' = finished + 1
        /\ Crash(<<>>, <<"FileNotFoundError">>)
        /\ http' = Received(response.status, response.body, FALSE)
        /\ UNCHANGED <<consumed, stdout, files, calls, started, handled, environ>>
        /\ UNCHANGED writes
        /\ trace' = trace \o <<Reply(Ev, "private", response.status)>>
        /\ UNCHANGED <<flushed>>

\* authenticated 200 but the stream or the disk fails after k bytes, src lines 68-70
DownloadPrivateWriteFails ==
    \E response \in DownloadResponses :
        \E k \in 0..Len(response.body) :
            /\ pc = "download_private"
            /\ response.status = StatusOK
            /\ files' = WriteInterrupted(files, PrivateWritePath(cur.oid, cur.path),
                                         response.body, k)
            /\ finished' = finished + 1
            /\ Crash(<<>>, <<"OSError">>)
            /\ http' = Received(response.status, response.body, FALSE)
            /\ writes' = Append(writes, PrivateWritePath(cur.oid, cur.path))
            /\ UNCHANGED <<consumed, stdout, calls, started, handled, environ>>
            /\ trace' = trace \o <<Reply(Ev, "private", response.status),
                                     Opened(Ev, PrivateWritePath(cur.oid, cur.path)),
                                     Closed(Ev, PrivateWritePath(cur.oid, cur.path))>>
            /\ UNCHANGED <<flushed>>

\* authenticated status other than 200: RuntimeError, src line 55
DownloadPrivateFails ==
    \E response \in DownloadResponses :
        /\ pc = "download_private"
        /\ response.status # StatusOK
        /\ finished' = finished + 1
        /\ Crash(<<>>, <<"Error downloading file", response.status, response.body>>)
        /\ http' = Received(response.status, response.body, FALSE)
        /\ UNCHANGED <<consumed, stdout, files, calls, started, handled, environ>>
        /\ UNCHANGED writes
        /\ trace' = trace \o <<Reply(Ev, "private", response.status)>>
        /\ UNCHANGED <<flushed>>

-----------------------------------------------------------------------------
\* asyncio.run has returned; sys.stderr("finished\n") calls a file object, which
\* raises TypeError: the process ends by an uncaught exception, src lines 181-183
Finish ==
    /\ pc = "finish"
    /\ pc' = "exited"
    /\ stderr' = Append(stderr, Diag("Traceback", <<"TypeError">>))
    /\ exitCode' = ExitFailure
    /\ UNCHANGED <<consumed, cur, stdout, files, calls, posted, started, finished,
                   handled, cause, environ>>
    /\ UNCHANGED <<http, writes>>
    /\ UNCHANGED <<flushed, trace>>

Next ==
    \/ Main
    \/ ReadEOF
    \/ ReadBlank
    \/ ReadMalformed
    \/ ReadNonObject
    \/ HandleInit
    \/ HandleTerminate
    \/ HandleUnknown
    \/ BeginUpload
    \/ UploadTokenFails
    \/ UploadOpenFails
    \/ UploadPost
    \/ FileChanges
    \/ UploadSucceeds
    \/ UploadBodyNotJson
    \/ UploadSizeFails
    \/ UploadFails
    \/ BeginDownload
    \/ DownloadPublicSucceeds
    \/ DownloadPublicOpenFails
    \/ DownloadPublicWriteFails
    \/ DownloadPublicForbidden
    \/ DownloadPublicFails
    \/ DownloadTokenFails
    \/ DownloadPrivateGet
    \/ DownloadPrivateSucceeds
    \/ DownloadPrivateOpenFails
    \/ DownloadPrivateWriteFails
    \/ DownloadPrivateFails
    \/ Finish

Spec == Init /\ [][Next]_vars

\* os.environ is a mutable mapping of the process: code sharing the process
\* (a host importing the agent, another task of the event loop) can assign
\* GCS_BUCKET while handle_request waits for the next line, src line 148
EnvironChanges ==
    \E b \in Buckets :
        /\ pc = "read"
        /\ b # environ
        /\ environ' = b
        /\ UNCHANGED <<pc, consumed, cur, stdout, stderr, files, calls, posted, started,
                       finished, handled, cause, exitCode, http, writes, flushed, trace>>

NextEnv == Next \/ EnvironChanges

SpecEnv == Init /\ [][NextEnv]_vars

-----------------------------------------------------------------------------
(* Vocabulary of the properties *)

Last(seq) == seq[Len(seq)]

\* the line is a JSON object whose event field is one of evs
IsEventLine(line, evs) ==
    /\ ~IsBlank(line)
    /\ JsonLoads(line).ok
    /\ HasGet(JsonLoads(line).value)
    /\ JsonLoads(line).value.event \in evs

IsUnknownLine(line) ==
    /\ ~IsBlank(line)
    /\ JsonLoads(line).ok
    /\ HasGet(JsonLoads(line).value)
    /\ JsonLoads(line).value.event \notin KnownEvents

IsMalformedLine(line) == ~IsBlank(line) /\ ~JsonLoads(line).ok

\* the init/upload/download/terminate events read so far, in input order
KnownLines == SelectSeq(consumed, LAMBDA l : IsEventLine(l, KnownEvents))

TerminateSeen == \E i \in 1..Len(consumed) : IsEventLine(consumed[i], {"terminate"})
MalformedSeen == \E i \in 1..Len(consumed) : IsMalformedLine(consumed[i])
UnknownSeen == \E i \in 1..Len(consumed) : IsUnknownLine(consumed[i])

\* this step reads a line
ReadsLine == Len(consumed') = Len(consumed) + 1

InHandler == pc \in HandlerPcs

IsResponse(r) ==
    \/ r = InitResponse
    \/ r = TerminateResponse
    \/ DOMAIN r = {"event", "oid", "path"} /\ r.event = "complete"
    \/ DOMAIN r = {"event", "oid", "size"} /\ r.event = "complete"

\* response r is the answer to the event of line l
Answers(r, l) ==
    LET e == JsonLoads(l).value IN
    IF e.event \in {"init", "terminate"}
    THEN r = [event |-> e.event]
    ELSE /\ r.event = "complete"
         /\ r.oid = e.oid
         /\ (e.event = "upload") = ("size" \in DOMAIN r)

-----------------------------------------------------------------------------
(* C1: at any point the number of response lines on standard output equals  *)
(* the number of init/upload/download/terminate events whose handler has    *)
(* returned; between events, as long as no handler has failed, that is the  *)
(* number of such events read, so an event with an unrecognized `event`     *)
(* value has produced none.                                                 *)
C1_OneResponsePerHandledEvent ==
    /\ Len(stdout) = handled
    /\ handled <= Len(KnownLines)
    /\ (cause # "failure" /\ ~InHandler) => handled = Len(KnownLines)

C1_Witness ==
    /\ pc = "read"
    /\ Len(consumed) = 2
    /\ UnknownSeen
    /\ handled = 1
    /\ Len(stdout) = 1
    /\ stdout[1].event = "complete"

(* C2 (as claimed): once a terminate event has been read and answered, no   *)
(* further input line is read and no further response is written.           *)
C2_NoInputAfterTerminate ==
    [][TerminateSeen => (consumed' = consumed /\ stdout' = stdout)]_vars

(* C3 (as claimed): the exit code is 0 when the run ends by end-of-input    *)
(* (after a terminate event or not), and non-zero when it ends by a         *)
(* malformed line or by a failure escaping the loop.                        *)
C3_ExitCodes ==
    /\ (pc = "exited" /\ cause = "eof") => exitCode = 0
    /\ (pc = "exited" /\ cause \in {"malformed", "failure"}) => exitCode # 0

(* C4 (as claimed): a download whose public GET returns 200 answers with    *)
(* path equal to the sharded temporary path of the oid, and the body is     *)
(* written to that path.                                                    *)
C4_PublicDownloadReportsTempPath ==
    [][(pc = "download_public" /\ http'.status = StatusOK /\ pc' = "read")
         => /\ stdout' = Append(stdout,
                                DownloadComplete(cur.oid, get_temporary_path(cur.oid)))
            /\ files'[get_temporary_path(cur.oid)] = File(http'.body)]_vars

(* C5 (as claimed): a download whose public GET returns 403 and whose       *)
(* authenticated GET returns 200 answers with the caller-supplied path,     *)
(* writes the body to it, and writes nothing to the sharded temporary path. *)
C5_PrivateDownloadNeverWritesTempPath ==
    [][(pc = "download_private" /\ http'.status = StatusOK /\ pc' = "read")
         => /\ stdout' = Append(stdout, DownloadComplete(cur.oid, cur.path))
            /\ files'[cur.path] = File(http'.body)
            /\ \A i \in (Len(writes) + 1)..Len(writes') :
                   writes'[i] # get_temporary_path(cur.oid)]_vars

(* C5 (amended): such a download answers with the caller-supplied path,     *)
(* writes the body to it and opens no other file for writing, so the        *)
(* sharded temporary path is written only when it is the caller-supplied    *)
(* path itself.                                                             *)
C5_PrivateDownloadWritesCallerPathOnly ==
    [][(pc = "download_private" /\ http'.status = StatusOK /\ pc' = "read")
         => /\ stdout' = Append(stdout, DownloadComplete(cur.oid, cur.path))
            /\ files'[cur.path] = File(http'.body)
            /\ writes' = Append(writes, cur.path)
            /\ \A p \in Paths \ {cur.path} : files'[p] = files[p]]_vars

C5_Witness ==
    /\ pc = "read"
    /\ calls # <<>>
    /\ Last(calls).url.kind = "private"
    /\ http = Received(StatusOK, <<1, 2>>, FALSE)
    /\ stdout = <<DownloadComplete(OidB, TmpOut)>>
    /\ files[TmpOut] = File(<<1, 2>>)
    /\ files[get_temporary_path(OidB)] = Absent

(* C6 (as claimed): an upload that the store answers with status 200,       *)
(* whatever the body, writes exactly one response, whose size is the byte   *)
(* length of the local file when its bytes were sent.                       *)
C6_UploadReportsSentSize ==
    [][(pc = "upload_post" /\ pc' # "upload_post" /\ http'.status = StatusOK)
         => stdout' = Append(stdout, UploadComplete(cur.oid, Len(posted)))]_vars

(* C7: an event object whose `event` field is none of init, upload,         *)
(* download, terminate (or is missing) writes nothing to standard output,   *)
(* writes at least one line to standard error, issues no credential or      *)
(* backend call, touches no file, and leaves the loop waiting for the next  *)
(* line with the process alive.                                             *)
C7_UnknownEventOnlyLogged ==
    [][(ReadsLine /\ IsUnknownLine(Last(consumed')))
         => /\ stdout' = stdout
            /\ Len(stderr') > Len(stderr)
            /\ calls' = calls
            /\ files' = files
            /\ pc' = "read"
            /\ exitCode' = Running]_vars

C7_Witness ==
    /\ Len(consumed) = 2
    /\ IsUnknownLine(consumed[1])
    /\ IsEventLine(consumed[2], {"init"})
    /\ stdout = <<InitResponse>>

(* C8: reading a non-blank line that is not JSON writes no response and     *)
(* ends the read loop; from then on no line is read, no event dispatched,   *)
(* no call issued, and standard output keeps the responses written before.  *)
C8_MalformedLineEndsLoop ==
    [][/\ (ReadsLine /\ IsMalformedLine(Last(consumed')))
            => (stdout' = stdout /\ started' = started /\ pc' \in {"finish", "exited"})
       /\ MalformedSeen
            => (consumed' = consumed /\ stdout' = stdout /\ started' = started
                /\ calls' = calls)]_vars

C8_Witness ==
    /\ pc = "exited"
    /\ Len(consumed) = 2
    /\ IsMalformedLine(consumed[2])
    /\ Len(stdout) = 1

(* C9: at most one event is being handled at any time, a handler is in      *)
(* progress exactly while the worker waits inside it, every credential or   *)
(* backend call belongs to an upload/download event already read and the    *)
(* calls are in event order, the calls of the handler in progress belong to *)
(* the line read last, and the responses on standard output answer the      *)
(* init/upload/download/terminate events in the order they were read.       *)
C9_OneAtATimeInOrder ==
    /\ started - finished \in {0, 1}
    /\ (started - finished = 1) = InHandler
    /\ \A i \in 1..Len(calls) :
           /\ calls[i].ev \in 1..Len(consumed)
           /\ IsEventLine(consumed[calls[i].ev], {"upload", "download"})
           /\ calls[i].url.kind # "gcloud"
                => calls[i].url.object_name = JsonLoads(consumed[calls[i].ev]).value.oid
           /\ i > 1 => calls[i - 1].ev <= calls[i].ev
    /\ InHandler => (calls # <<>> /\ Last(calls).ev = Len(consumed))
    /\ Len(stdout) <= Len(KnownLines)
    /\ \A i \in 1..Len(stdout) : Answers(stdout[i], KnownLines[i])

C9_Witness ==
    /\ Len(stdout) = 2
    /\ stdout[1].event = "complete"
    /\ stdout[2].event = "complete"
    /\ stdout[1].oid # stdout[2].oid
    /\ \E i, j \in 1..Len(calls) : calls[i].ev = 1 /\ calls[j].ev = 2

(* C10: every line on standard output is a protocol response of one of the  *)
(* four forms; every line on standard error is diagnostic text; when a      *)
(* handler fails the error text is the last line of standard error.         *)
C10_StdoutCarriesOnlyResponses ==
    /\ \A i \in 1..Len(stdout) : IsResponse(stdout[i])
    /\ \A i \in 1..Len(stderr) : DOMAIN stderr[i] = {"msg", "arg"}
    /\ (pc = "exited" /\ cause = "failure")
           => Last(stderr).msg = "Traceback"

C10_Witness ==
    /\ pc = "exited"
    /\ cause = "failure"
    /\ Len(stdout) = 1
    /\ stdout[1].event = "complete"
    /\ Last(stderr).msg = "Traceback"
    /\ Last(stderr).arg[1] = "Error fetching access token"

(* C11: an init event appends exactly {"event":"init"} to standard output,  *)
(* issues no credential or backend call, touches no file, and leaves the    *)
(* process alive and waiting for the next line.                             *)
C11_InitOnlyAnswers ==
    [][(ReadsLine /\ IsEventLine(Last(consumed'), {"init"}))
         => /\ stdout' = Append(stdout, InitResponse)
            /\ calls' = calls
            /\ files' = files
            /\ writes' = writes
            /\ pc' = "read"
            /\ cause' = "none"
            /\ exitCode' = Running]_vars

C11_Witness ==
    /\ pc = "read"
    /\ Len(consumed) = 2
    /\ \A i \in 1..2 : IsEventLine(consumed[i], {"init"})
    /\ stdout = <<InitResponse, InitResponse>>
    /\ calls = <<>>
    /\ exitCode = Running

(* C12: whenever the worker is about to read a line, or has read one and is *)
(* handling it, every response line written to standard output so far has   *)
(* been flushed.                                                            *)
C12_FlushedBeforeNextRead ==
    (pc = "read" \/ InHandler) => flushed = Len(stdout)

C12_Witness ==
    /\ InHandler
    /\ Len(consumed) = 2
    /\ Len(stdout) = 1
    /\ stdout[1].event = "complete"
    /\ flushed = 1

\* this step receives the answer to a GET and the download fails on its status
DownloadStatusFails ==
    /\ trace' # trace
    /\ \/ pc = "download_public" /\ http'.status \notin {StatusOK, StatusForbidden}
       \/ pc = "download_private" /\ http'.status # StatusOK

(* C13: the public GET is the first call of every download; the             *)
(* authenticated GET is issued only after the public GET of the same event  *)
(* was answered 403; when the public status is neither 200 nor 403, or the  *)
(* authenticated status is not 200, the download ends the process with an   *)
(* error carrying the status and body of the response received last, no     *)
(* file is opened or changed and no response line is written.               *)
C13_DownloadTiersAndFailure ==
    [][/\ (calls' # calls /\ Last(calls').url.kind = "public")
            => /\ ReadsLine
               /\ Last(calls').auth = <<>>
       /\ (calls' # calls /\ Last(calls').url.kind = "private")
            => /\ pc = "download_token"
               /\ http.status = StatusForbidden
               /\ Last(trace) = Reply(Ev, "public", StatusForbidden)
               /\ \E i \in 1..Len(calls) :
                      calls[i] = Request("public", cur.bucket, cur.oid, <<>>, Ev)
       /\ DownloadStatusFails
            => /\ stdout' = stdout
               /\ files' = files
               /\ writes' = writes
               /\ calls' = calls
               /\ pc' = "exited"
               /\ Last(stderr').msg = "Traceback"
               /\ Last(stderr').arg
                      = <<"Error downloading file", http'.status, http'.body>>]_vars

C13_Witness ==
    /\ pc = "exited"
    /\ calls # <<>>
    /\ Last(calls).url.kind = "private"
    /\ http = Received(404, <<1, 2>>, FALSE)
    /\ Last(stderr).arg = <<"Error downloading file", 404, <<1, 2>>>>
    /\ stdout = <<>>
    /\ writes = <<>>


-----------------------------------------------------------------------------
\* positions in calls where the credential tool was invoked
ToolCalls == {i \in 1..Len(calls) : calls[i].url.kind = "gcloud"}

\* positions in calls of the requests that carry a bearer token
AuthenticatedCalls == {i \in 1..Len(calls) : calls[i].url.kind \in {"upload", "private"}}

\* positions in the input of the upload events handled so far
UploadsHandled == {i \in 1..Len(consumed) : IsEventLine(consumed[i], {"upload"})}

\* positions in trace where a public GET returned status
PublicReplies(status) ==
    {i \in 1..Len(trace) : /\ trace[i].what = "reply"
                           /\ trace[i].kind = "public"
                           /\ trace[i].status = status}

(* C14: the credential tool is invoked once per authenticated call and no   *)
(* token is reused across events: the number of tool invocations equals the *)
(* number of upload events handled plus the number of downloads whose       *)
(* public GET returned 403, each event invokes it at most once, every       *)
(* authenticated request follows directly the tool invocation of its own    *)
(* event, and a download whose public GET returned 200 invokes it never.    *)
C14_ToolOncePerAuthenticatedCall ==
    /\ Cardinality(ToolCalls)
         = Cardinality(UploadsHandled) + Cardinality(PublicReplies(StatusForbidden))
    /\ \A i, j \in ToolCalls : calls[i].ev = calls[j].ev => i = j
    /\ \A i \in AuthenticatedCalls :
           /\ i > 1
           /\ (i - 1) \in ToolCalls
           /\ calls[i - 1].ev = calls[i].ev
    /\ \A i \in ToolCalls :
           \A j \in PublicReplies(StatusOK) : trace[j].ev # calls[i].ev

C14_Witness ==
    /\ Cardinality(ToolCalls) = 2
    /\ Cardinality(UploadsHandled) = 1
    /\ Cardinality(PublicReplies(StatusForbidden)) = 1
    /\ Cardinality(AuthenticatedCalls) = 2


-----------------------------------------------------------------------------
\* this step is a run of the credential tool that exits non-zero
ToolRunFails ==
    /\ Len(trace') > Len(trace)
    /\ trace'[Len(trace) + 1].what = "tool"
    /\ trace'[Len(trace) + 1].status # 0

\* the diagnostic text the credential tool printed when it exited with returncode
ToolDiagnostics(returncode) == {run.stderr : run \in {r \in ToolRuns : r.returncode = returncode}}

(* C15: when the credential tool exits non-zero, get_access_token fails at  *)
(* once with an error carrying the tool's diagnostic text and is not        *)
(* retried: the tool ran once for the event, no request is issued after it  *)
(* (neither the authenticated GET nor the POST), no file is opened or       *)
(* changed, no response line is written, and the process ends.              *)
C15_TokenFailureStopsTheEvent ==
    [][ToolRunFails =>
          /\ InHandler
          /\ Last(calls).url.kind = "gcloud" /\ Last(calls).ev = Ev
          /\ Cardinality({i \in ToolCalls : calls[i].ev = Ev}) = 1
          /\ calls' = calls
          /\ Len(trace') = Len(trace) + 1
          /\ files' = files /\ writes' = writes
          /\ stdout' = stdout
          /\ Last(stderr').msg = "Traceback"
          /\ Last(stderr').arg[1] = "Error fetching access token"
          /\ Last(stderr').arg[2] \in ToolDiagnostics(Last(trace').status)
          /\ pc' = "exited" /\ cause' = "failure"]_vars

C15_Witness ==
    /\ pc = "exited" /\ trace # <<>> /\ calls # <<>>
    /\ Last(trace).what = "tool" /\ Last(trace).status # 0
    /\ PublicReplies(StatusForbidden) # {}
    /\ Last(calls).url.kind = "gcloud"
    /\ stdout # <<>>


-----------------------------------------------------------------------------
\* this step ends the handler of an upload or download event without a response
HandlerFails == InHandler /\ finished' = finished + 1 /\ handled' = handled

\* the failure of this step is the parsing of the body of a successful upload
\* reply (response.json()), not a credential, status or local file failure
BodyParseFails == pc = "upload_post" /\ http'.status = StatusOK /\ ~http'.json

(* C16: a failure while an upload or download event is handled (credential  *)
(* failure, non-success status, local file failure) is not recovered: the   *)
(* step that fails writes no response and ends the process with an uncaught *)
(* exception, and from then on nothing is read, started, requested or       *)
(* answered.                                                                *)
C16_HandlerFailureEndsTheProcess ==
    [][/\ HandlerFails
           => /\ stdout' = stdout
              /\ started' = started /\ consumed' = consumed
              /\ cause' = "failure"
              /\ ~BodyParseFails
                   => /\ pc' = "exited"
                      /\ exitCode' = ExitFailure
                      /\ Last(stderr').msg = "Traceback"
       /\ cause = "failure"
           => /\ consumed' = consumed /\ started' = started /\ handled' = handled
              /\ stdout' = stdout /\ calls' = calls /\ files' = files
              /\ pc' = "exited" /\ exitCode' = ExitFailure]_vars

C16_Witness ==
    /\ pc = "exited" /\ cause = "failure"
    /\ Len(consumed) = 2 /\ IsEventLine(consumed[2], {"upload"})
    /\ stdout = <<InitResponse>>
    /\ Last(stderr).msg = "Traceback" /\ Last(stderr).arg[1] = "Error uploading file"
    /\ started = 2 /\ handled = 1 /\ finished = 2


-----------------------------------------------------------------------------
\* positions in calls of the requests sent to the object store
StoreCalls == {i \in 1..Len(calls) : calls[i].url.kind # "gcloud"}

(* C17: the bucket name is read from the environment once at startup: the   *)
(* bucket in the URL of every upload and download request of a run is the   *)
(* value GCS_BUCKET had at process start, also when the environment value   *)
(* changes between events.                                                  *)
C17_BucketFixedAtStartup ==
    \A i \in StoreCalls : calls[i].url.bucket = StartBucket


-----------------------------------------------------------------------------
\* the entries this step adds to trace
NewEntries == SubSeq(trace', Len(trace) + 1, Len(trace'))

InDownload == pc \in {"download_public", "download_private"}

\* this step opens a file for the body of a download
OpensFile == InDownload /\ \E i \in 1..Len(NewEntries) : NewEntries[i].what = "open"

\* this step writes the `complete` response of a download
Completes == InDownload /\ stdout' # stdout

IsPrefix(s, t) == Len(s) <= Len(t) /\ SubSeq(t, 1, Len(s)) = s

(* C18: the `complete` response of a download is written only after the     *)
(* whole body has been streamed to the file and the file closed; when the   *)
(* streaming fails part-way the file is left with the part written so far,  *)
(* the handle is closed, no `complete` response is written for that event   *)
(* and the process ends.                                                    *)
C18_CompleteOnlyAfterFileWritten ==
    [][/\ Completes
           => /\ Len(NewEntries) = 4
              /\ NewEntries[2] = Opened(Ev, Last(writes'))
              /\ NewEntries[3] = Closed(Ev, Last(writes'))
              /\ NewEntries[4] = Completed(Ev)
              /\ files'[Last(writes')] = File(http'.body)
       /\ (OpensFile /\ ~Completes)
           => /\ Len(NewEntries) = 3
              /\ NewEntries[2] = Opened(Ev, Last(writes'))
              /\ NewEntries[3] = Closed(Ev, Last(writes'))
              /\ files'[Last(writes')].exists
              /\ IsPrefix(files'[Last(writes')].data, http'.body)
              /\ handled' = handled
              /\ stdout' = stdout
              /\ pc' = "exited"]_vars

C18_Witness ==
    /\ pc = "exited" /\ trace # <<>> /\ writes # <<>>
    /\ Last(trace) = Closed(Ev, Last(writes))
    /\ http.body = <<1, 2>>
    /\ files[Last(writes)] = File(<<1>>)
    /\ \A i \in 1..Len(trace) : trace[i] # Completed(Ev)


-----------------------------------------------------------------------------
\* the text of the line is empty or holds only whitespace
IsEmptyOrWhitespace(line) == line.text \in {"empty", "spaces"}

(* C19: an input line that is empty or only whitespace is skipped: reading  *)
(* it writes nothing on standard output or standard error, starts no        *)
(* handler, is no parse failure, does not end the loop, and leaves the loop *)
(* ready to read the next line.                                             *)
C19_BlankLineSkipped ==
    [][(ReadsLine /\ IsEmptyOrWhitespace(Last(consumed')))
          => /\ stdout' = stdout /\ stderr' = stderr
             /\ started' = started /\ finished' = finished /\ handled' = handled
             /\ calls' = calls /\ files' = files /\ trace' = trace
             /\ cause' = cause /\ cause' = "none"
             /\ exitCode' = Running
             /\ pc' = "read"]_vars

C19_Witness ==
    /\ Len(consumed) = 2
    /\ consumed[1].text = "spaces"
    /\ IsEventLine(consumed[2], {"download"})
    /\ handled = 1 /\ stdout # <<>> /\ pc = "read"


-----------------------------------------------------------------------------
\* the line is valid JSON whose top-level value is no object
IsNonObjectLine(line) == line.text = "json" /\ line.value.type # "object"

(* C20: an input line that is valid JSON but whose top-level value is not   *)
(* an object is handled neither as a parse failure nor as an Unknown event: *)
(* reading it writes no response line and no "Error decoding JSON" or       *)
(* "Unsupported event" diagnostic; the AttributeError it raises is not      *)
(* caught by the loop, the process ends abnormally and no later line is     *)
(* read.                                                                    *)
C20_NonObjectJsonEndsTheProcess ==
    [][/\ (ReadsLine /\ IsNonObjectLine(Last(consumed')))
           => /\ stdout' = stdout
              /\ Len(stderr') = Len(stderr) + 1
              /\ Last(stderr') = Diag("Traceback", <<"AttributeError">>)
              /\ handled' = handled /\ calls' = calls /\ files' = files
              /\ cause' = "failure"
              /\ exitCode' = ExitFailure
              /\ pc' = "exited"
       /\ (consumed # <<>> /\ IsNonObjectLine(Last(consumed)))
           => consumed' = consumed /\ stdout' = stdout]_vars

C20_Witness ==
    /\ pc = "exited"
    /\ Len(consumed) = 2
    /\ IsEventLine(consumed[1], {"init"})
    /\ IsNonObjectLine(consumed[2]) /\ consumed[2].value.type = "array"
    /\ stdout = <<InitResponse>>
    /\ Last(stderr) = Diag("Traceback", <<"AttributeError">>)

=============================================================================
